---------------------------- MODULE Spec2Model ----------------------------
(***************************************************************************)
(* Model of streamlit_app.py (GA4 "Analytics Console"): the path           *)
(* normalizer, the three cached report fetch functions (request building,  *)
(* external run_report call, response shaping) and the st.cache_data       *)
(* memoization with its 300 second time-to-live.                           *)
(*                                                                         *)
(* A Python str is a sequence of one-character strings.  Characters        *)
(* outside ASCII are written by name ("ZWSP", "NBSP", "BOM", "WJ").        *)
(* A Python call that may raise yields a record [raised, value].           *)
(***************************************************************************)
EXTENDS Integers, Sequences, FiniteSets, TLC

VARIABLES
    raw,        \* the line handed to normalize_input
    out,        \* NotRun, or the outcome of normalize_input(raw)
    report,     \* the report function whose body is run on resp
    resp,       \* the response of client.run_report
    shaped,     \* NotRun, or the outcome of the function body on resp
    now,        \* wall clock, in seconds
    cache,      \* st.cache_data storage: fn -> set of entries
    log,        \* history of the calls made, oldest first
    sidebar     \* the sidebar widgets: date_from, date_to, property_id

vars == <<raw, out, report, resp, shaped, now, cache, log, sidebar>>

NotRun == [raised |-> FALSE, value |-> <<"<not run>">>, pending |-> TRUE]

Returned(v) == [raised |-> FALSE, value |-> v, pending |-> FALSE]

Raised(e) == [raised |-> TRUE, value |-> <<e>>, pending |-> FALSE]

-----------------------------------------------------------------------------
(* Python str primitives                                                   *)

\* The printable ASCII characters, code 32 (space) to 126 (~), in order.
Ascii ==
    <<" ", "!", "DQUOTE", "#", "$", "%", "&", "'", "(", ")", "*", "+", ",", "-",
      ".", "/", "0", "1", "2", "3", "4", "5", "6", "7", "8", "9", ":", ";",
      "<", "=", ">", "?", "@", "A", "B", "C", "D", "E", "F", "G", "H", "I",
      "J", "K", "L", "M", "N", "O", "P", "Q", "R", "S", "T", "U", "V", "W",
      "X", "Y", "Z", "[", "BACKSLASH", "]", "^", "_", "BACKTICK", "a", "b", "c", "d", "e",
      "f", "g", "h", "i", "j", "k", "l", "m", "n", "o", "p", "q", "r", "s",
      "t", "u", "v", "w", "x", "y", "z", "{", "|", "}", "~">>

\* The code of each printable ASCII character.
AsciiCode ==
    [c \in {Ascii[i] : i \in 1..95} |-> 31 + (CHOOSE i \in 1..95 : Ascii[i] = c)]

\* The code points of the characters of the model: TAB is 9, a printable
\* ASCII character has its code, the named characters their code points.
CodePoint ==
    AsciiCode @@ ("TAB" :> 9) @@ ("NBSP" :> 160) @@ ("ZWSP" :> 8203)
    @@ ("WJ" :> 8288) @@ ("BOM" :> 65279) @@ ("REPL" :> 65533)

\* ord(c)
Ord(c) == CodePoint[c]

\* chr(n) for the codes a percent escape of the model can name; a byte that
\* is no printable ASCII decodes to the replacement character.
Chr(n) ==
    IF n = 9 THEN "TAB"
    ELSE IF n >= 32 /\ n <= 126 THEN Ascii[n - 31]
    ELSE "REPL"

\* lo <= n <= hi
Within(n, lo, hi) == n >= lo /\ n <= hi

IsUpper(c) == Within(Ord(c), 65, 90)

IsLower(c) == Within(Ord(c), 97, 122)

IsDigit(c) == Within(Ord(c), 48, 57)

\* The code n is that of an ASCII letter.
IsAlphaCode(n) == Within(n, 65, 90) \/ Within(n, 97, 122)

IsAsciiAlpha(c) == IsAlphaCode(Ord(c))

\* The lower-case character of an upper-case letter of code n.
LowerOfCode(c, n) == IF Within(n, 65, 90) THEN Chr(n + 32) ELSE c

LowerChar(c) == LowerOfCode(c, Ord(c))

\* str.lower()
Lower(s) == [i \in 1..Len(s) |-> LowerChar(s[i])]

\* s.startswith(p)
StartsWith(s, p) == Len(s) >= Len(p) /\ SubSeq(s, 1, Len(p)) = p

\* c in s
Contains(s, c) == \E i \in 1..Len(s) : s[i] = c

\* s.find(c, start): the first index >= start holding c, 0 when there is
\* none (indices are 1-based here, so the -1 of Python is 0).
Find(s, c, start) ==
    IF \E i \in start..Len(s) : s[i] = c
    THEN CHOOSE i \in start..Len(s) :
             s[i] = c /\ \A j \in start..(i - 1) : s[j] # c
    ELSE 0

\* s.rfind(c)
RFind(s, c) ==
    IF Contains(s, c)
    THEN CHOOSE i \in 1..Len(s) : s[i] = c /\ \A j \in (i + 1)..Len(s) : s[j] # c
    ELSE 0

\* s[i:] with a 1-based i
From(s, i) == SubSeq(s, i, Len(s))

\* s[:i] exclusive of a 1-based i
Upto(s, i) == SubSeq(s, 1, i - 1)

\* s.split(c, 1)[0]: the text before the first c, all of s when there is none
Before(s, c) == IF Contains(s, c) THEN Upto(s, Find(s, c, 1)) ELSE s

\* s.split(c, 1)[1]: the text after the first c, empty when there is none
After(s, c) == IF Contains(s, c) THEN From(s, Find(s, c, 1) + 1) ELSE <<>>

\* s.replace(ch, "") for every ch of a set
RECURSIVE RemoveAll(_, _)
RemoveAll(s, chars) ==
    IF s = <<>> THEN <<>>
    ELSE IF Head(s) \in chars THEN RemoveAll(Tail(s), chars)
    ELSE <<Head(s)>> \o RemoveAll(Tail(s), chars)

RECURSIVE LStrip(_, _)
LStrip(s, chars) ==
    IF s # <<>> /\ Head(s) \in chars THEN LStrip(Tail(s), chars) ELSE s

RECURSIVE RStrip(_, _)
RStrip(s, chars) ==
    IF s # <<>> /\ s[Len(s)] \in chars
    THEN RStrip(SubSeq(s, 1, Len(s) - 1), chars)
    ELSE s

\* The whitespace str.strip() removes, among the characters of the model.
Whitespace == {" ", "TAB", "NBSP"}

\* s.split(sep): the pieces between the occurrences of the character sep.
RECURSIVE Split(_, _)
Split(s, sep) ==
    IF ~Contains(s, sep) THEN <<s>>
    ELSE <<Before(s, sep)>> \o Split(After(s, sep), sep)

\* sep.join(parts)
RECURSIVE Join(_, _)
Join(parts, sep) ==
    IF parts = <<>> THEN <<>>
    ELSE IF Len(parts) = 1 THEN parts[1]
    ELSE parts[1] \o sep \o Join(Tail(parts), sep)


-----------------------------------------------------------------------------
(* urllib.parse, as streamlit_app.py uses it (CPython 3.11)                *)

Min(S) == CHOOSE x \in S : \A y \in S : x <= y

Http == <<"h", "t", "t", "p">>

Https == <<"h", "t", "t", "p", "s">>

\* uses_netloc and uses_params: the entries that matter to a caller that
\* only parses strings beginning with "http" (the other entries of the two
\* lists, such as 'ftp' or 'shttp', do not begin with it) or strings that
\* have no scheme.
uses_netloc == {<<>>, Http, Https}

uses_params == {<<>>, Http, Https}

\* c in scheme_chars: letters, digits and + - .
SchemeCode(n) == IsAlphaCode(n) \/ Within(n, 48, 57) \/ n \in {43, 45, 46}

scheme_chars(c) == SchemeCode(Ord(c))

\* The indices at or after start where a delimiter of the netloc stands.
NetlocDelims(url, start) == {Find(url, c, start) : c \in {"/", "?", "#"}} \ {0}

\* The index where the netloc ends: the earliest of / ? #, else len(url).
NetlocEnd(url, start) ==
    IF NetlocDelims(url, start) = {} THEN Len(url) + 1
    ELSE Min(NetlocDelims(url, start))

\* _splitnetloc(url, start): the domain ends at the earliest of / ? #
splitnetloc(url, start) ==
    <<SubSeq(url, start, NetlocEnd(url, start) - 1),
      From(url, NetlocEnd(url, start))>>

\* url[:i] is a scheme: i is the index of the first ':', not the first
\* character, after an ASCII letter and scheme characters only.
SchemeEndsAt(url, i) ==
    /\ i > 1
    /\ IsAsciiAlpha(url[1])
    /\ \A j \in 1..(i - 1) : scheme_chars(url[j])

HasScheme(url) == SchemeEndsAt(url, Find(url, ":", 1))

\* urlsplit after the netloc is taken: the fragment is split off at the
\* first '#', then the query at the first '?'.  The netloc of the model is
\* ASCII (clean_line removed the invisible characters), so _checknetloc
\* returns at once; a netloc holding a bracket is no IP literal here and is
\* rejected.
SplitRest(scheme, hasNet, netloc, url) ==
    IF hasNet /\ (Contains(netloc, "[") \/ Contains(netloc, "]"))
    THEN Raised("ValueError")
    ELSE Returned([scheme |-> scheme, netloc |-> netloc,
                   path |-> Before(Before(url, "#"), "?"),
                   query |-> After(Before(url, "#"), "?"),
                   fragment |-> After(url, "#")])

\* urlsplit after the scheme is taken: if url[:2] == '//', the netloc.
SplitNetloc(scheme, url, hasNet) ==
    SplitRest(scheme, hasNet,
              IF hasNet THEN splitnetloc(url, 3)[1] ELSE <<>>,
              IF hasNet THEN splitnetloc(url, 3)[2] ELSE url)

\* urlsplit of a url whose leading blanks and tabs are gone.
SplitScheme(url, hasScheme) ==
    SplitNetloc(IF hasScheme THEN Lower(Before(url, ":")) ELSE <<>>,
                IF hasScheme THEN After(url, ":") ELSE url,
                StartsWith(IF hasScheme THEN After(url, ":") ELSE url,
                           <<"/", "/">>))

SplitStripped(url) == SplitScheme(url, HasScheme(url))

\* urlsplit(url)
urlsplit(u) == SplitStripped(RemoveAll(LStrip(u, {" ", "TAB"}), {"TAB"}))

\* url[:i], url[i+1:] for the index i of the ';' that starts the params,
\* the whole url when i is 0.
SplitParamsAt(url, i) ==
    IF i = 0 THEN <<url, <<>>>> ELSE <<Upto(url, i), From(url, i + 1)>>

\* _splitparams(url): the first ';' of the last path segment
splitparams(url) ==
    SplitParamsAt(url, IF Contains(url, "/")
                       THEN Find(url, ";", RFind(url, "/"))
                       ELSE Find(url, ";", 1))

\* The ParseResult of a SplitResult v whose path was split into sp.
ParseResult(v, sp) ==
    [scheme |-> v.scheme, netloc |-> v.netloc, path |-> sp[1],
     params |-> sp[2], query |-> v.query, fragment |-> v.fragment]

\* urlparse, given the outcome r of urlsplit
ParseSplit(r) ==
    IF r.raised THEN r
    ELSE Returned(ParseResult(r.value,
                              IF /\ r.value.scheme \in uses_params
                                 /\ Contains(r.value.path, ";")
                              THEN splitparams(r.value.path)
                              ELSE <<r.value.path, <<>>>>))

\* urlparse(url)
urlparse(u) == ParseSplit(urlsplit(u))

\* urlunsplit: the query and the fragment are appended to url.
WithQueryAndFragment(url, query, fragment) ==
    (IF query # <<>> THEN url \o <<"?">> \o query ELSE url)
    \o (IF fragment # <<>> THEN <<"#">> \o fragment ELSE <<>>)

\* urlunsplit: the scheme is put before url.
WithScheme(scheme, url) ==
    IF scheme # <<>> THEN scheme \o <<":">> \o url ELSE url

\* urlunsplit: the netloc is put before url.
WithNetloc(scheme, netloc, url) ==
    IF \/ netloc # <<>>
       \/ (scheme # <<>> /\ scheme \in uses_netloc
           /\ ~StartsWith(url, <<"/", "/">>))
    THEN <<"/", "/">> \o netloc
         \o (IF url # <<>> /\ url[1] # "/" THEN <<"/">> \o url ELSE url)
    ELSE url

\* urlunsplit((scheme, netloc, url, query, fragment))
urlunsplit(scheme, netloc, url, query, fragment) ==
    WithQueryAndFragment(WithScheme(scheme, WithNetloc(scheme, netloc, url)),
                         query, fragment)

\* urlunparse((scheme, netloc, url, params, query, fragment))
urlunparse(scheme, netloc, url, params, query, fragment) ==
    urlunsplit(scheme, netloc,
               IF params # <<>> THEN url \o <<";">> \o params ELSE url,
               query, fragment)

\* The value of the hexadecimal digit of code n, -1 for any other code.
HexOfCode(n) ==
    IF Within(n, 48, 57) THEN n - 48
    ELSE IF Within(n, 97, 102) THEN n - 87
    ELSE IF Within(n, 65, 70) THEN n - 55
    ELSE -1

HexVal(c) == HexOfCode(Ord(c))

\* The character a percent escape names, given the values of its two
\* digits; "%" when one of them is no hexadecimal digit.
Escaped(hi, lo) == IF hi >= 0 /\ lo >= 0 THEN Chr(16 * hi + lo) ELSE "%"

\* s begins with a percent escape: % and two hexadecimal digits.
IsEscape(s) ==
    /\ Len(s) >= 3
    /\ s[1] = "%"
    /\ HexVal(s[2]) >= 0
    /\ HexVal(s[3]) >= 0

\* unquote(string): %XX becomes the character of that code, a % that no two
\* hexadecimal digits follow is kept.
RECURSIVE unquote(_)
unquote(s) ==
    IF s = <<>> THEN <<>>
    ELSE IF IsEscape(s)
         THEN <<Escaped(HexVal(s[2]), HexVal(s[3]))>> \o unquote(From(s, 4))
         ELSE <<s[1]>> \o unquote(Tail(s))

\* s.replace('+', ' ')
PlusToSpace(s) == [i \in 1..Len(s) |-> IF s[i] = "+" THEN " " ELSE s[i]]

\* One field of parse_qsl: name_value.split('=', 1), a name with no '=' gets
\* the blank value (keep_blank_values=True).
QsField(nv) ==
    <<unquote(PlusToSpace(Before(nv, "="))),
      unquote(PlusToSpace(After(nv, "=")))>>

RECURSIVE QsFields(_)
QsFields(args) ==
    IF args = <<>> THEN <<>>
    ELSE IF Head(args) = <<>> THEN QsFields(Tail(args))
    ELSE <<QsField(Head(args))>> \o QsFields(Tail(args))

\* parse_qsl(qs, keep_blank_values=True): the list of (name, value) pairs
parse_qsl(qs) == IF qs = <<>> THEN <<>> ELSE QsFields(Split(qs, "&"))

HexDigits ==
    <<"0", "1", "2", "3", "4", "5", "6", "7", "8", "9", "A", "B", "C", "D",
      "E", "F">>

PercentByte(n) == <<"%", HexDigits[(n \div 16) + 1], HexDigits[(n % 16) + 1]>>

\* The UTF-8 bytes of the character c of code n.
Utf8OfCode(c, n) ==
    IF n < 128 THEN <<n>>
    ELSE IF c = "NBSP" THEN <<194, 160>>
    ELSE IF c = "ZWSP" THEN <<226, 128, 139>>
    ELSE IF c = "WJ" THEN <<226, 129, 160>>
    ELSE IF c = "REPL" THEN <<239, 191, 189>>
    ELSE <<239, 187, 191>>

\* c.encode('utf-8')
Utf8(c) == Utf8OfCode(c, Ord(c))

RECURSIVE PercentBytes(_)
PercentBytes(bs) ==
    IF bs = <<>> THEN <<>>
    ELSE PercentByte(Head(bs)) \o PercentBytes(Tail(bs))

\* c is never quoted: letters, digits and _.-~, given the code n of c
AlwaysSafe(n) == IsAlphaCode(n) \/ Within(n, 48, 57) \/ n \in {95, 46, 45, 126}

\* One character of quote_plus.
QuotedChar(c) ==
    IF AlwaysSafe(Ord(c)) THEN <<c>>
    ELSE IF c = " " THEN <<"+">>
    ELSE PercentBytes(Utf8(c))

\* quote_plus(string, safe=''): letters, digits and _.-~ stay, a space
\* becomes +, every other character its percent-escaped UTF-8 bytes.
RECURSIVE quote_plus(_)
quote_plus(s) ==
    IF s = <<>> THEN <<>>
    ELSE QuotedChar(Head(s)) \o quote_plus(Tail(s))

RECURSIVE EncodedPairs(_)
EncodedPairs(q) ==
    IF q = <<>> THEN <<>>
    ELSE <<quote_plus(Head(q)[1]) \o <<"=">> \o quote_plus(Head(q)[2])>>
         \o EncodedPairs(Tail(q))

\* urlencode(query, doseq=True) of a list of (str, str) pairs
urlencode(q) == Join(EncodedPairs(q), <<"&">>)

-----------------------------------------------------------------------------
(* Path normalizer                                                         *)

INVISIBLE == {"BOM", "ZWSP", "WJ", "NBSP"}

\* clean_line(s): drop the invisible characters, then str.strip()
clean_line(s) ==
    RStrip(LStrip(RemoveAll(s, INVISIBLE), Whitespace), Whitespace)

Utm == <<"u", "t", "m", "_">>

\* [(k, v) for k, v in pairs if not k.lower().startswith("utm_")]
RECURSIVE DropUtm(_)
DropUtm(pairs) ==
    IF pairs = <<>> THEN <<>>
    ELSE IF StartsWith(Lower(Head(pairs)[1]), Utm) THEN DropUtm(Tail(pairs))
    ELSE <<Head(pairs)>> \o DropUtm(Tail(pairs))

\* urlunparse((p.scheme, p.netloc, p.path, p.params, urlencode(q), ""))
Rebuilt(p) ==
    urlunparse(p.scheme, p.netloc, p.path, p.params,
               urlencode(DropUtm(parse_qsl(p.query))), <<>>)

\* strip_utm_and_fragment, given the outcome p of urlparse(raw_url)
StripParsed(p) == IF p.raised THEN p ELSE Returned(Rebuilt(p.value))

\* strip_utm_and_fragment(raw_url)
strip_utm_and_fragment(raw_url) == StripParsed(urlparse(raw_url))

\* urlparse(s), given the outcome t of s = strip_utm_and_fragment(s)
ParseStripped(t) == IF t.raised THEN t ELSE urlparse(t.value)

\* urlparse(s).path or "/", given the outcome p of urlparse(s)
PathOrRoot(p) ==
    IF p.raised THEN p
    ELSE Returned(IF p.value.path # <<>> THEN p.value.path ELSE <<"/">>)

\* The branch of normalize_input for a line that begins with "http".
UrlBranch(s) == PathOrRoot(ParseStripped(strip_utm_and_fragment(s)))

\* normalize_input after s = clean_line(raw)
NormalizeCleaned(s) ==
    IF s = <<>> THEN Returned(<<>>)
    ELSE IF StartsWith(s, Http) THEN UrlBranch(s)
    ELSE IF ~StartsWith(s, <<"/">>) THEN Returned(<<"/">> \o s)
    ELSE Returned(s)

\* normalize_input(raw)
normalize_input(r) == NormalizeCleaned(clean_line(r))

\* The longest tail, in tokens, appended to a prefix to make an input line.
MaxTail == 2

BlogPost == <<"/", "b", "l", "o", "g", "/", "p", "o", "s", "t", "-", "1">>

UtmSource == <<"u", "t", "m", "_", "s", "o", "u", "r", "c", "e", "=", "x">>

Prefixes ==
    { <<>>, Http, Http \o <<":", "/", "/", "h">>,
      Https \o <<":", "/", "/", "h", "/", "p">>,
      <<"H", "T", "T", "P", ":", "/", "/", "h">>, BlogPost, <<"f", "a", "q">> }

Tokens ==
    { <<"/">>, <<"f", "o", "o">>, <<"?">>, <<"#">>, <<":">>, <<";">>, <<" ">>,
      <<"ZWSP">>, <<"&">>, <<"[">>, UtmSource, <<"U", "T", "M", "_", "b">>,
      <<"%", "7", "5", "t", "m", "_", "c", "=", "+">>, <<"k", "=", "v">> }

RECURSIVE Tails(_)
Tails(n) ==
    IF n = 0 THEN {<<>>}
    ELSE Tails(n - 1) \cup {t \o k : t \in Tails(n - 1), k \in Tokens}

\* The lines a user may type: a prefix followed by up to MaxTail tokens.
RawInputs == {p \o t : p \in Prefixes, t \in Tails(MaxTail)}

\* One line of the text area is normalized.
NormalizeInput ==
    /\ out.pending
    /\ out' = normalize_input(raw)
    /\ UNCHANGED <<raw, report, resp, shaped, now, cache, log, sidebar>>

-----------------------------------------------------------------------------
(* Python numbers.  A float is held exactly, as an integer count of        *)
(* hundredths; the metric strings of the model have at most two decimals.  *)

Scale == 100

RECURSIVE DigitsValue(_)
DigitsValue(ds) ==
    IF ds = <<>> THEN 0
    ELSE 10 * DigitsValue(SubSeq(ds, 1, Len(ds) - 1)) + (Ord(ds[Len(ds)]) - 48)

AllDigits(s) == \A i \in 1..Len(s) : IsDigit(s[i])

\* int(s) of a str: decimal digits only.  "", "abc" and "10.0" raise.
PyInt(s) ==
    IF s # <<>> /\ AllDigits(s) THEN Returned(DigitsValue(s))
    ELSE Raised("ValueError")

\* The first two decimals of a fraction, in hundredths.
FracHundredths(f) ==
    IF f = <<>> THEN 0
    ELSE IF Len(f) = 1 THEN 10 * DigitsValue(f)
    ELSE DigitsValue(SubSeq(f, 1, 2))

\* float(s) of a str, in hundredths: digits, digits.digits, digits. or
\* .digits; anything else the model can spell raises.
FloatOfParts(ip, fp) ==
    IF AllDigits(ip) /\ AllDigits(fp) /\ (ip # <<>> \/ fp # <<>>)
    THEN Returned(Scale * DigitsValue(ip) + FracHundredths(fp))
    ELSE Raised("ValueError")

PyFloat(s) == FloatOfParts(Before(s, "."), After(s, "."))

\* float(value or 0): an empty string is falsy, so float(0) is taken.
FloatOrZero(v) == IF v = <<>> THEN Returned(0) ELSE PyFloat(v)

\* int(float(value or 0)): truncation of the float
Truncated(f) == IF f.raised THEN f ELSE Returned(f.value \div Scale)

IntOfFloat(v) == Truncated(FloatOrZero(v))

Max(a, b) == IF a >= b THEN a ELSE b

\* The divisor without its floor of 1.
Divisor_Unfloored(users) == users

\* max(users, 1): the divisor of the average
Divisor(users) == Max(users, 1)

\* round(n / d, 0) of an exact quotient of naturals, ties to the even
\* integer, as round() does on a float that holds the tie exactly.
RoundHalfEven(n, d) ==
    IF 2 * (n % d) < d THEN n \div d
    ELSE IF 2 * (n % d) > d THEN (n \div d) + 1
    ELSE IF (n \div d) % 2 = 0 THEN n \div d ELSE (n \div d) + 1

\* round(eng / divisor, 1), in tenths; eng is in hundredths.  Float
\* division by zero raises ZeroDivisionError.
AvgEngagement(eng, divisor) ==
    IF divisor = 0 THEN Raised("ZeroDivisionError")
    ELSE Returned(RoundHalfEven(eng, 10 * divisor))

-----------------------------------------------------------------------------
(* Response shaping: the row loops of the fetch functions                  *)

\* rows.append({...}): the record of row r, avg being the outcome of the
\* rounded division.
RowRecord(r, second, views, users, avg) ==
    IF avg.raised THEN avg
    ELSE Returned(("Path" :> r.dimension_values[1])
                  @@ (second :> r.dimension_values[2])
                  @@ ("Views" :> views)
                  @@ ("Unique Users" :> users)
                  @@ ("Avg Engagement Time (s)" :> avg.value))

\* The record of row r, given the outcomes of the three conversions in the
\* order the loop makes them.
RowOutcome(r, second, views, users, eng) ==
    IF views.raised THEN views
    ELSE IF users.raised THEN users
    ELSE IF eng.raised THEN eng
    ELSE RowRecord(r, second, views.value, users.value,
                   AvgEngagement(eng.value, Divisor(users.value)))

\* One pass of the loop "for r in resp.rows" of fetch_by_paths_cached and
\* fetch_top_materials_cached; second is "Title" or "Screen Class".
ShapeRow(r, second) ==
    RowOutcome(r, second, IntOfFloat(r.metric_values[1]),
               IntOfFloat(r.metric_values[2]), FloatOrZero(r.metric_values[3]))

\* The records so far with rec put before them, or the first error.
Prepended(rec, rest) ==
    IF rec.raised THEN rec
    ELSE IF rest.raised THEN rest
    ELSE Returned(<<rec.value>> \o rest.value)

\* The same with rec put after them.
Postpended(rec, rest) ==
    IF rec.raised THEN rec
    ELSE IF rest.raised THEN rest
    ELSE Returned(rest.value \o <<rec.value>>)

\* The loop with each record put in front of the earlier ones.
RECURSIVE ShapeRows_Reversed(_, _)
ShapeRows_Reversed(rows, second) ==
    IF rows = <<>> THEN Returned(<<>>)
    ELSE Postpended(ShapeRow(Head(rows), second),
                    ShapeRows_Reversed(Tail(rows), second))

\* rows = []; for r in resp.rows: rows.append(...); pd.DataFrame(rows)
RECURSIVE ShapeRows(_, _)
ShapeRows(rows, second) ==
    IF rows = <<>> THEN Returned(<<>>)
    ELSE Prepended(ShapeRow(Head(rows), second),
                   ShapeRows(Tail(rows), second))

\* pd.DataFrame([{...}]) of the totals, given the outcomes of the three
\* conversions in the order the record makes them.
TotalsOutcome(sessions, totalUsers, pageViews) ==
    IF sessions.raised THEN sessions
    ELSE IF totalUsers.raised THEN totalUsers
    ELSE IF pageViews.raised THEN pageViews
    ELSE Returned(<<("sessions" :> sessions.value)
                    @@ ("totalUsers" :> totalUsers.value)
                    @@ ("screenPageViews" :> pageViews.value)>>)

\* The one record of the totals frame, from the metric values of the first
\* row or, row being empty, of zeros.
TotalsRecord(row) ==
    TotalsOutcome(IF row # <<>> THEN PyInt(row[1]) ELSE Returned(0),
                  IF row # <<>> THEN PyInt(row[2]) ELSE Returned(0),
                  IF row # <<>> THEN PyInt(row[3]) ELSE Returned(0))

\* The totals frame without the test "if resp.rows".
ShapeTotals_Unguarded(rows) ==
    IF rows = <<>> THEN Raised("IndexError")
    ELSE TotalsRecord(rows[1].metric_values)

\* row = resp.rows[0].metric_values if resp.rows else []; pd.DataFrame([{...}])
ShapeTotals(rows) ==
    TotalsRecord(IF rows # <<>> THEN rows[1].metric_values ELSE <<>>)

\* The report functions.
Reports == {"by_paths", "top_materials", "site_totals"}

\* What the body of a report function makes of the rows run_report gave.
Shape(fn, rows) ==
    IF fn = "by_paths" THEN ShapeRows(rows, "Title")
    ELSE IF fn = "top_materials" THEN ShapeRows(rows, "Screen Class")
    ELSE ShapeTotals(rows)

-----------------------------------------------------------------------------
(* Report requests and the bodies of the three fetch functions             *)

PropertiesPrefix == <<"p", "r", "o", "p", "e", "r", "t", "i", "e", "s", "/">>

EngagementMetrics == <<"screenPageViews", "activeUsers", "userEngagementDuration">>

\* The limit of the path-filtered request.
PathsLimit == 100000

\* The limit of the totals request.
TotalsLimit == 1

\* FilterExpression(filter=Filter(field_name="pagePath", ...)) for one path
PathFilter(p) ==
    [field_name |-> "pagePath", value |-> p, match_type |-> "BEGINS_WITH",
     case_sensitive |-> FALSE]

\* The RunReportRequest of fetch_by_paths_cached.  An unset message field
\* (dimension_filter, order_bys, dimensions) is the empty sequence.
PathsRequest(property_id, paths, start_date, end_date) ==
    [property |-> PropertiesPrefix \o property_id,
     dimensions |-> <<"pagePath", "pageTitle">>,
     metrics |-> EngagementMetrics,
     date_ranges |-> <<[start_date |-> start_date, end_date |-> end_date]>>,
     dimension_filter |->
         <<[or_group |-> [i \in 1..Len(paths) |-> PathFilter(paths[i])]]>>,
     order_bys |-> <<>>,
     limit |-> PathsLimit]

\* The limit of the path-filtered request, copied into the top-ranked one.
TopLimit_Fixed(limit) == PathsLimit

\* limit=int(limit) of fetch_top_materials_cached, for an int limit
TopLimit(limit) == limit

\* The RunReportRequest of fetch_top_materials_cached.
TopRequest(property_id, start_date, end_date, limit) ==
    [property |-> PropertiesPrefix \o property_id,
     dimensions |-> <<"pagePathPlusQueryString", "screenClass">>,
     metrics |-> EngagementMetrics,
     date_ranges |-> <<[start_date |-> start_date, end_date |-> end_date]>>,
     dimension_filter |-> <<>>,
     order_bys |-> <<[metric_name |-> "screenPageViews", desc |-> TRUE]>>,
     limit |-> TopLimit(limit)]

\* The RunReportRequest of fetch_site_totals_cached.
TotalsRequest(property_id, start_date, end_date) ==
    [property |-> PropertiesPrefix \o property_id,
     dimensions |-> <<>>,
     metrics |-> <<"sessions", "totalUsers", "screenPageViews">>,
     date_ranges |-> <<[start_date |-> start_date, end_date |-> end_date]>>,
     dimension_filter |-> <<>>,
     order_bys |-> <<>>,
     limit |-> TotalsLimit]

\* The request a report function builds from its parameter tuple:
\* (property_id, paths, start_date, end_date) for by_paths,
\* (property_id, start_date, end_date, limit) for top_materials,
\* (property_id, start_date, end_date) for site_totals.
Request(fn, args) ==
    IF fn = "by_paths" THEN PathsRequest(args[1], args[2], args[3], args[4])
    ELSE IF fn = "top_materials"
         THEN TopRequest(args[1], args[2], args[3], args[4])
    ELSE TotalsRequest(args[1], args[2], args[3])

\* client.run_report answers with rows or raises.
ApiRows(rows) == [error |-> FALSE, rows |-> rows]

ApiError == [error |-> TRUE, rows |-> <<>>]

\* The body of a report function: build the request, call run_report, shape
\* the rows.  An error of run_report or of the shaping leaves the function.
Body(fn, args, api) ==
    [request |-> Request(fn, args),
     outcome |-> IF api.error THEN Raised("GoogleAPICallError")
                 ELSE Shape(fn, api.rows)]

-----------------------------------------------------------------------------
(* st.cache_data(ttl=300)                                                  *)

TTL == 300

EmptyCache == [fn \in Reports |-> {}]

\* An entry that still answers at the instant of its expiry.
IsFresh_Inclusive(e, t) == t <= e.stored_at + TTL

\* An entry answers a call while the clock is before its expiry.
IsFresh(e, t) == t < e.stored_at + TTL

\* An entry answers the calls of its own parameter tuple.
SameKey(e, args) == e.args = args

\* The entries of fn that answer a call with args at time t.
Lookup(c, fn, args, t) == {e \in c[fn] : SameKey(e, args) /\ IsFresh(e, t)}

\* A storage that also remembers a raised error.
StoreOutcome_Always(c, fn, args, o, t) ==
    [c EXCEPT ![fn] =
         {e \in @ : e.args # args}
         \cup {[args |-> args, value |-> o.value, stored_at |-> t]}]

\* The storage after the function body ended with outcome o: a returned
\* value replaces the entry of its key, a raised error stores nothing.
StoreOutcome(c, fn, args, o, t) ==
    IF o.raised THEN c
    ELSE [c EXCEPT ![fn] =
              {e \in @ : e.args # args}
              \cup {[args |-> args, value |-> o.value, stored_at |-> t]}]

\* A call answered from the storage: the body is not run.
Answered(c, hits) ==
    [cache |-> c, ran |-> FALSE, request |-> <<>>,
     outcome |-> Returned((CHOOSE e \in hits : TRUE).value)]

\* A call that ran the body with result b, at time t.
Computed(c, fn, args, t, b) ==
    [cache |-> StoreOutcome(c, fn, args, b.outcome, t), ran |-> TRUE,
     request |-> <<b.request>>, outcome |-> b.outcome]

\* A call of the cached function fn(*args) at time t, api being what
\* run_report would answer: the new storage, whether run_report was called,
\* the request it got, and the outcome handed to the caller.
CachedCall(c, fn, args, t, api) ==
    IF Lookup(c, fn, args, t) # {}
    THEN Answered(c, Lookup(c, fn, args, t))
    ELSE Computed(c, fn, args, t, Body(fn, args, api))

-----------------------------------------------------------------------------
(* Sample data: metric strings, rows, parameter tuples                     *)

S0 == <<"0">>

S1 == <<"1">>

S2 == <<"2">>

S3 == <<"3">>

S4 == <<"4">>

S10 == <<"1", "0">>

S80 == <<"8", "0">>

S10_0 == <<"1", "0", ".", "0">>

S42_0 == <<"4", "2", ".", "0">>

S7_5 == <<"7", ".", "5">>

Sabc == <<"a", "b", "c">>

Row(path, title, views, users, eng) ==
    [dimension_values |-> <<path, title>>, metric_values |-> <<views, users, eng>>]

\* Rows whose three metric values all parse as floats.
NumericRows ==
    {Row("/blog/post-1", "Post", S10, u, e) :
        u \in {S4, S0, S2, S10_0, <<>>}, e \in {S80, S42_0, S1, S3, S7_5}}
    \cup {Row("/faq", "FAQ", <<>>, S1, <<>>), Row("/faq", "FAQ", S10_0, S3, S0)}

\* Rows with a metric value that is no number.
NonNumericRows ==
    {Row("/faq", "FAQ", Sabc, S4, S80), Row("/faq", "FAQ", S10, Sabc, S80),
     Row("/faq", "FAQ", S10, S4, Sabc)}

SampleRows == NumericRows \cup NonNumericRows

\* The most rows a response of the model holds.
MaxRows == 2

RECURSIVE RowSeqs(_)
RowSeqs(n) ==
    IF n = 0 THEN {<<>>}
    ELSE RowSeqs(n - 1)
         \cup {Append(s, r) : s \in {t \in RowSeqs(n - 1) : Len(t) = n - 1},
                              r \in SampleRows}

\* A row of the totals report has no dimension values.
NoDimensions(r) == [r EXCEPT !.dimension_values = <<>>]

\* The responses run_report may give to the request of fn.
Responses(fn) ==
    IF fn = "site_totals"
    THEN {[i \in 1..Len(s) |-> NoDimensions(s[i])] : s \in RowSeqs(MaxRows)}
         \cup {<<[dimension_values |-> <<>>, metric_values |-> <<>>]>>}
    ELSE RowSeqs(MaxRows)

Pid12 == <<"1", "2">>

Jan01 == <<"2", "0", "2", "4", "-", "0", "1", "-", "0", "1">>

Jan31 == <<"2", "0", "2", "4", "-", "0", "1", "-", "3", "1">>

Faq == <<"/", "f", "a", "q">>

\* The parameter tuples the calls of the model use: for each function a
\* base tuple and tuples that differ from it in one component.
SampleArgs(fn) ==
    IF fn = "by_paths"
    THEN {<<Pid12, <<BlogPost, Faq>>, Jan01, Jan31>>,
          <<Pid12, <<Faq>>, Jan01, Jan31>>,
          <<Pid12, <<BlogPost, Faq>>, Jan31, Jan31>>}
    ELSE IF fn = "top_materials"
    THEN {<<Pid12, Jan01, Jan31, 10>>, <<Pid12, Jan01, Jan31, 500>>,
          <<<<>>, Jan01, Jan31, 10>>}
    ELSE {<<Pid12, Jan01, Jan31>>, <<Pid12, Jan01, Jan01>>}

\* The tuple the shaping specification calls fn with.
BaseArgs(fn) ==
    IF fn = "by_paths" THEN <<Pid12, <<BlogPost, Faq>>, Jan01, Jan31>>
    ELSE IF fn = "top_materials" THEN <<Pid12, Jan01, Jan31, 10>>
    ELSE <<Pid12, Jan01, Jan31>>

-----------------------------------------------------------------------------
(* The body of a report function run on one response                       *)

RunBody(fn) ==
    /\ report = fn
    /\ shaped.pending
    /\ shaped' = Body(fn, BaseArgs(fn), ApiRows(resp)).outcome
    /\ UNCHANGED <<raw, out, report, resp, now, cache, log, sidebar>>

RunByPaths == RunBody("by_paths")

RunTopMaterials == RunBody("top_materials")

RunSiteTotals == RunBody("site_totals")

-----------------------------------------------------------------------------
(* Calls of the cached functions, and the clock                            *)

\* The most calls a behaviour of the model makes.
MaxCalls == 2

\* The instants at which the model looks at the clock.
Times == {0, 299, 300}

RowA == Row("/blog/post-1", "Post", S10, S4, S80)

RowB == Row("/faq", "FAQ", S10_0, S0, S42_0)

RowBad == Row("/faq", "FAQ", S10, S4, Sabc)

\* What run_report may answer in the cache specification.
ApiOutcomes(fn) ==
    IF fn = "site_totals"
    THEN {ApiError, ApiRows(<<NoDimensions(RowA)>>), ApiRows(<<>>),
          ApiRows(<<NoDimensions(RowBad)>>)}
    ELSE {ApiError, ApiRows(<<RowA>>), ApiRows(<<RowB, RowA>>),
          ApiRows(<<RowBad>>)}

Tick ==
    /\ \E t \in Times : t > now /\ now' = t
    /\ UNCHANGED <<raw, out, report, resp, shaped, cache, log, sidebar>>

\* The call fn(*args) ended as r: the storage is r.cache, the call is logged.
Called(fn, args, r) ==
    /\ cache' = r.cache
    /\ log' = Append(log, [fn |-> fn, args |-> args, at |-> now,
                           ran |-> r.ran, wrote |-> r.cache # cache,
                           request |-> r.request, outcome |-> r.outcome])

Call(fn) ==
    /\ Len(log) < MaxCalls
    /\ \E args \in SampleArgs(fn), api \in ApiOutcomes(fn) :
          Called(fn, args, CachedCall(cache, fn, args, now, api))
    /\ UNCHANGED <<raw, out, report, resp, shaped, now, sidebar>>

CallByPaths == Call("by_paths")

CallTopMaterials == Call("top_materials")

CallSiteTotals == Call("site_totals")

-----------------------------------------------------------------------------
(* The app: the sidebar widgets and the three tab actions                  *)

\* A date is its day of the year 2024.
MonthDays == <<31, 29, 31, 30, 31, 30, 31, 31, 30, 31, 30, 31>>

RECURSIVE MonthAndDay(_, _)
MonthAndDay(n, m) ==
    IF n <= MonthDays[m] THEN <<m, n>>
    ELSE MonthAndDay(n - MonthDays[m], m + 1)

TwoDigits(k) == <<Chr(48 + (k \div 10)), Chr(48 + (k % 10))>>

\* str(d) of a datetime.date: YYYY-MM-DD
IsoFormat(n) ==
    <<"2", "0", "2", "4", "-">> \o TwoDigits(MonthAndDay(n, 1)[1])
    \o <<"-">> \o TwoDigits(MonthAndDay(n, 1)[2])

\* timedelta(days=30)
DaysBack == 30

\* date.today() on the days the app is opened in the model.
Todays == {31}

\* The sidebar as the script first draws it.
DefaultSidebar(today) ==
    [date_from |-> today - DaysBack, date_to |-> today, property_id |-> Pid12]

\* The dates the user may pick and the property ids the user may type.
DateChoices == {1, 31}

PropertyChoices == {<<>>, Pid12}

SetDateFrom ==
    /\ \E d \in DateChoices : sidebar' = [sidebar EXCEPT !.date_from = d]
    /\ UNCHANGED <<raw, out, report, resp, shaped, now, cache, log>>

SetDateTo ==
    /\ \E d \in DateChoices : sidebar' = [sidebar EXCEPT !.date_to = d]
    /\ UNCHANGED <<raw, out, report, resp, shaped, now, cache, log>>

SetPropertyId ==
    /\ \E p \in PropertyChoices : sidebar' = [sidebar EXCEPT !.property_id = p]
    /\ UNCHANGED <<raw, out, report, resp, shaped, now, cache, log>>

\* The bounds of the limit selector of the top-ranked report.
MinLimit == 1

MaxLimit == 500

\* The values the user tries in the limit selector.
LimitInputs == {0, 1, 500, 501}

\* The selector holds only a value within its bounds.
Selectable(v) == v >= MinLimit /\ v <= MaxLimit

\* The most tab actions a behaviour of the model takes.
MaxActions == 2

\* The text areas the user may submit: lists of lines.
LineLists ==
    { <<<<" ">>, <<"ZWSP">>>>,
      <<BlogPost \o <<"?">> \o UtmSource, <<"f", "a", "q">>>> }

\* What run_report may answer in the app specification.
AppOutcomes(fn) ==
    IF fn = "site_totals" THEN {ApiError, ApiRows(<<NoDimensions(RowA)>>)}
    ELSE {ApiError, ApiRows(<<RowA>>)}

\* The paths so far with the result h of one line put before them, an
\* empty result skipped; an error of normalize_input leaves the action.
Collected(h, t) ==
    IF h.raised THEN h
    ELSE IF t.raised THEN t
    ELSE Returned((IF h.value = <<>> THEN <<>> ELSE <<h.value>>) \o t.value)

\* [normalize_input(x) for x in lines], the empty results skipped
RECURSIVE NormalizeLines(_)
NormalizeLines(lines) ==
    IF lines = <<>> THEN Returned(<<>>)
    ELSE Collected(normalize_input(Head(lines)), NormalizeLines(Tail(lines)))

\* A validation that forgets the date range.
SidebarInvalid_NoDates(s) == s.property_id = <<>>

\* The validation every tab action makes before it builds a request.
SidebarInvalid(s) == s.property_id = <<>> \/ s.date_from > s.date_to

\* What a tab action ends as: aborted on a validation failure, else one
\* call of the cached function fn with args.
TabOutcome(fn, args, invalid, api) ==
    IF invalid
    THEN [cache |-> cache, ran |-> FALSE, request |-> <<>>,
          outcome |-> Raised("ValidationError")]
    ELSE CachedCall(cache, fn, args, now, api)

\* The tab action ended as r: the storage is r.cache, the action is logged.
TabLogged(action, invalid, paths, limit, r) ==
    /\ cache' = r.cache
    /\ log' = Append(log, [action |-> action, sidebar |-> sidebar,
                           paths |-> paths, limit |-> limit,
                           aborted |-> invalid, ran |-> r.ran,
                           wrote |-> r.cache # cache,
                           request |-> r.request, outcome |-> r.outcome])

\* One tab action.
TabAction(action, fn, args, invalid, paths, limit, api) ==
    /\ Len(log) < MaxActions
    /\ TabLogged(action, invalid, paths, limit,
                 TabOutcome(fn, args, invalid, api))
    /\ UNCHANGED <<raw, out, report, resp, shaped, now, sidebar>>

\* The paths of the text area, none when normalize_input raised.
PathsOf(n) == IF n.raised THEN <<>> ELSE n.value

\* The "URL Analytics" button, n being the outcome of normalizing the lines.
Tab1With(n, api) ==
    TabAction("tab1", "by_paths",
              <<sidebar.property_id, PathsOf(n),
                IsoFormat(sidebar.date_from), IsoFormat(sidebar.date_to)>>,
              SidebarInvalid(sidebar) \/ n.raised \/ PathsOf(n) = <<>>,
              PathsOf(n), 0, api)

Tab1Collect ==
    \E lines \in LineLists, api \in AppOutcomes("by_paths") :
        Tab1With(NormalizeLines(lines), api)

\* The "Top Materials" button.
Tab2Load ==
    \E v \in LimitInputs, api \in AppOutcomes("top_materials") :
        /\ Selectable(v)
        /\ TabAction("tab2", "top_materials",
                     <<sidebar.property_id, IsoFormat(sidebar.date_from),
                       IsoFormat(sidebar.date_to), v>>,
                     SidebarInvalid(sidebar), <<>>, v, api)

\* The "Global Performance" button.
Tab3Load ==
    \E api \in AppOutcomes("site_totals") :
        TabAction("tab3", "site_totals",
                  <<sidebar.property_id, IsoFormat(sidebar.date_from),
                    IsoFormat(sidebar.date_to)>>,
                  SidebarInvalid(sidebar), <<>>, 0, api)

-----------------------------------------------------------------------------
(* Specifications                                                          *)

NormalizerIdle == raw = <<>> /\ out = NotRun

ShaperIdle == report = "none" /\ resp = <<>> /\ shaped = NotRun

CacheIdle == now = 0 /\ cache = EmptyCache /\ log = <<>>

SidebarIdle == sidebar = <<>>

InitNormalize ==
    /\ raw \in RawInputs
    /\ out = NotRun
    /\ ShaperIdle
    /\ CacheIdle
    /\ SidebarIdle

NextNormalize == NormalizeInput

SpecNormalize == InitNormalize /\ [][NextNormalize]_vars

InitShape ==
    /\ report \in Reports
    /\ resp \in Responses(report)
    /\ shaped = NotRun
    /\ NormalizerIdle
    /\ CacheIdle
    /\ SidebarIdle

NextShape == RunByPaths \/ RunTopMaterials \/ RunSiteTotals

SpecShape == InitShape /\ [][NextShape]_vars

InitCache ==
    /\ NormalizerIdle
    /\ ShaperIdle
    /\ CacheIdle
    /\ SidebarIdle

NextCache == CallByPaths \/ CallTopMaterials \/ CallSiteTotals \/ Tick

SpecCache == InitCache /\ [][NextCache]_vars

InitApp ==
    /\ \E today \in Todays : sidebar = DefaultSidebar(today)
    /\ NormalizerIdle
    /\ ShaperIdle
    /\ CacheIdle

NextApp ==
    \/ SetDateFrom
    \/ SetDateTo
    \/ SetPropertyId
    \/ Tab1Collect
    \/ Tab2Load
    \/ Tab3Load

SpecApp == InitApp /\ [][NextApp]_vars

-----------------------------------------------------------------------------
(* Properties                                                              *)

\* C1: for every raw input, normalize_input returns the empty string or a
\* string whose first character is '/', in the URL branch (any line that
\* begins with "http") as for a bare path.
C1_EmptyOrLeadingSlash ==
    ~out.pending =>
        /\ ~out.raised
        /\ (out.value = <<>> \/ out.value[1] = "/")

\* The fields of the query of s (the text after its first '?') whose name
\* begins with utm_, whatever the case.
HasUtmParam(s) ==
    LET q == Find(s, "?", 1)
        fields == IF q > 0 THEN Split(From(s, q + 1), "&") ELSE <<>>
    IN  \E i \in 1..Len(fields) : StartsWith(Lower(fields[i]), Utm)

\* C2: for every raw input, URL or bare path, the result of normalize_input
\* holds no utm_ query parameter and no '#': "/blog/post-1?utm_source=x"
\* gives "/blog/post-1" and "faq" gives "/faq".
C2_NoTrackingNoFragment ==
    (~out.pending /\ ~out.raised) =>
        /\ ~Contains(out.value, "#")
        /\ ~HasUtmParam(out.value)
        /\ (raw = BlogPost \o <<"?">> \o UtmSource => out.value = BlogPost)
        /\ (raw = <<"f", "a", "q">> => out.value = Faq)

\* Two outcomes are the same error or the same table.
SameOutcome(a, b) == a.raised = b.raised /\ a.value = b.value

\* Call i of the log ran the function body and stored what it returned.
Stored(i) == log[i].ran /\ ~log[i].outcome.raised

\* Calls i and j of the log are of one function with one parameter tuple.
SameCall(i, j) == log[i].fn = log[j].fn /\ log[i].args = log[j].args

\* C3: a call made less than 300 seconds after a call of the same function
\* with the same parameter tuple stored its table makes no run_report call
\* and returns that table (one run_report call for the two); a call with no
\* such stored table within the last 300 seconds calls run_report; and a
\* call answered from the cache is answered with a table stored for its own
\* function and parameter tuple.
C3_CacheWithinTtl ==
    /\ \A i, j \in 1..Len(log) :
          (i < j /\ SameCall(i, j) /\ Stored(i) /\ log[j].at - log[i].at < 300)
              => (~log[j].ran /\ SameOutcome(log[j].outcome, log[i].outcome))
    /\ \A j \in 1..Len(log) :
          (\A i \in 1..(j - 1) :
               (SameCall(i, j) /\ Stored(i)) => log[j].at - log[i].at >= 300)
              => log[j].ran
    /\ \A j \in 1..Len(log) :
          ~log[j].ran =>
              \E i \in 1..(j - 1) :
                  /\ SameCall(i, j)
                  /\ Stored(i)
                  /\ SameOutcome(log[i].outcome, log[j].outcome)

\* A second call 299 seconds after the first stored its table is answered
\* from the cache.
C3_Witness ==
    /\ Len(log) = 2
    /\ SameCall(1, 2)
    /\ Stored(1)
    /\ log[2].at - log[1].at = 299
    /\ ~log[2].ran
    /\ SameOutcome(log[2].outcome, log[1].outcome)

\* C4: a call in which run_report or the shaping raised stores nothing: the
\* storage is as before the call, every entry stems from a call that
\* returned, and the next call with the same tuple calls run_report again,
\* even within the 300 seconds.
C4_FailureNotCached ==
    /\ \A i \in 1..Len(log) :
          (log[i].ran /\ log[i].outcome.raised) => ~log[i].wrote
    /\ \A fn \in Reports : \A e \in cache[fn] :
          \E i \in 1..Len(log) :
              /\ log[i].fn = fn
              /\ log[i].args = e.args
              /\ Stored(i)
              /\ log[i].at = e.stored_at
              /\ log[i].outcome.value = e.value
    /\ \A i, j \in 1..Len(log) :
          (/\ i < j
           /\ SameCall(i, j)
           /\ log[i].ran
           /\ log[i].outcome.raised
           /\ \A k \in (i + 1)..(j - 1) : ~(SameCall(i, k) /\ Stored(k)))
              => log[j].ran

\* The shaping raised in a call, and the same call made again at once
\* calls run_report again.
C4_Witness ==
    /\ Len(log) = 2
    /\ log[1].ran
    /\ log[1].outcome.raised
    /\ log[1].outcome.value = <<"ValueError">>
    /\ SameCall(1, 2)
    /\ log[2].at = log[1].at
    /\ log[2].ran

\* The inputs of logged tab action e fail the validation.
InvalidInputs(e) ==
    \/ e.sidebar.property_id = <<>>
    \/ e.sidebar.date_from > e.sidebar.date_to
    \/ (e.action = "tab1" /\ e.paths = <<>>)

\* C5: an action whose property id is empty, whose normalized path list is
\* empty (path-filtered report) or whose start date is after its end date
\* aborts before a request is built: no run_report call, nothing written to
\* the cache.
C5_InvalidNeverFetches ==
    \A i \in 1..Len(log) :
        InvalidInputs(log[i]) =>
            /\ log[i].aborted
            /\ ~log[i].ran
            /\ log[i].request = <<>>
            /\ ~log[i].wrote

\* With a table already cached, an action with its start date after its
\* end date is aborted.
C5_Witness ==
    /\ Len(log) = 2
    /\ log[1].wrote
    /\ log[2].sidebar.date_from > log[2].sidebar.date_to
    /\ log[2].sidebar.property_id # <<>>
    /\ log[2].aborted

\* C6 as claimed: for every report shape, zero rows from the API shape to
\* zero records, and no error is raised.
C6_EmptyRowsEmptyTable ==
    (~shaped.pending /\ resp = <<>>) =>
        (~shaped.raised /\ shaped.value = <<>>)

\* C6 as amended: zero rows shape to zero records for the path-filtered and
\* the top-ranked report and to one record of three zeros for the totals
\* report; no error is raised in any of the three.
C6_EmptyRowsAmended ==
    (~shaped.pending /\ resp = <<>>) =>
        /\ ~shaped.raised
        /\ (report # "site_totals" => shaped.value = <<>>)
        /\ (report = "site_totals" =>
               shaped.value = <<[sessions |-> 0, totalUsers |-> 0,
                                 screenPageViews |-> 0]>>)

\* The totals function has shaped a response of zero rows.
C6_Witness ==
    ~shaped.pending /\ resp = <<>> /\ report = "site_totals" /\ ~shaped.raised

\* Record i of a shaped path-filtered or top-ranked table is within half a
\* tenth of engagement / max(users, 1): avg is in tenths, eng in hundredths.
AvgIsRounded(i) ==
    LET rec == shaped.value[i]
        users == rec["Unique Users"]
        eng == FloatOrZero(resp[i].metric_values[3]).value
        d == IF users = 0 THEN 1 ELSE users
        avg == rec["Avg Engagement Time (s)"]
        diff == 10 * d * avg - eng
    IN  /\ users >= 0
        /\ 2 * diff <= 10 * d
        /\ 2 * diff >= -(10 * d)
        /\ (users = 0 /\ eng = 4200 => avg = 420)
        /\ (users = 4 /\ eng = 8000 => avg = 200)

\* C7: in every row of the path-filtered and top-ranked tables, "Avg
\* Engagement Time (s)" is engagement / max(users, 1) rounded to one
\* decimal, and the division never fails: users 0 and engagement 42.0 give
\* 42.0, users 4 and engagement 80 give 20.0.
C7_AvgEngagement ==
    (~shaped.pending /\ report # "site_totals") =>
        /\ (shaped.raised => shaped.value # <<"ZeroDivisionError">>)
        /\ (~shaped.raised => \A i \in 1..Len(shaped.value) : AvgIsRounded(i))

\* A shaped row with no user and 42.0 seconds of engagement.
C7_Witness ==
    /\ ~shaped.pending
    /\ ~shaped.raised
    /\ report = "by_paths"
    /\ \E i \in 1..Len(shaped.value) :
          /\ shaped.value[i]["Unique Users"] = 0
          /\ resp[i].metric_values[3] = S42_0
          /\ shaped.value[i]["Avg Engagement Time (s)"] = 420

\* C8: in all three fetch functions a metric value that is missing, not a
\* number or decimal-formatted never makes the fetch raise.
C8_MetricsNeverRaise == ~shaped.pending => ~shaped.raised

\* The limit of logged tab action e is the one the request carries, within
\* 1..500, and the request has no filter and one ordering.
TopRequestOk(e) ==
    LET q == e.request[1]
    IN  /\ q.limit = e.limit
        /\ q.limit >= 1
        /\ q.limit <= 500
        /\ q.dimension_filter = <<>>
        /\ q.order_bys = <<[metric_name |-> "screenPageViews", desc |-> TRUE]>>

\* C9: every request fetch_top_materials_cached builds carries the limit
\* the caller supplied, within 1..500, no filter, and the one ordering
\* screenPageViews descending.
C9_TopRequest ==
    \A i \in 1..Len(log) :
        (log[i].action = "tab2" /\ log[i].ran) => TopRequestOk(log[i])

\* A top-ranked request with the limit 500 was sent.
C9_Witness ==
    \E i \in 1..Len(log) :
        /\ log[i].action = "tab2"
        /\ log[i].ran
        /\ log[i].limit = 500
        /\ log[i].request[1].limit = 500

\* C10: the path-filtered and top-ranked tables hold one record per row the
\* API returned, in the order of the rows: record i has the path of row i,
\* its views (metric 0) and its users (metric 1).
C10_OneRecordPerRow ==
    (~shaped.pending /\ ~shaped.raised /\ report # "site_totals") =>
        /\ Len(shaped.value) = Len(resp)
        /\ \A i \in 1..Len(resp) :
              /\ shaped.value[i]["Path"] = resp[i].dimension_values[1]
              /\ shaped.value[i]["Views"] =
                     IntOfFloat(resp[i].metric_values[1]).value
              /\ shaped.value[i]["Unique Users"] =
                     IntOfFloat(resp[i].metric_values[2]).value

\* Two rows that differ were shaped by the top-ranked function.
C10_Witness ==
    /\ ~shaped.pending
    /\ ~shaped.raised
    /\ report = "top_materials"
    /\ Len(resp) = 2
    /\ resp[1].dimension_values[1] # resp[2].dimension_values[1]
    /\ resp[1].metric_values[2] # resp[2].metric_values[2]
=============================================================================
